---- MODULE Spec2Model ----
(***************************************************************************)
(* Model of P3_LEFEBVRE_Romain_Group_B.py: the primal LP is validated,     *)
(* reshaped, printed, checked for feasibility at a candidate point,        *)
(* converted to its dual, the dual is handed to linprog, and the two       *)
(* objective values are compared.                                          *)
(*                                                                         *)
(* Numbers.  The program computes with floats.  The model keeps them exact *)
(* on a grid: the entries of c and A and the solver's answer y are         *)
(* integers; the entries of b and of the candidate point are integer       *)
(* multiples of Unit = 1e-8.  Every dot product the program compares       *)
(* (A[i].x against b[i], c.x against b.y) is then an integer multiple of   *)
(* Unit, and np.isclose (defaults rtol = 1e-5, atol = 1e-8) is evaluated   *)
(* exactly on these multiples.                                             *)
(***************************************************************************)
EXTENDS Integers, Sequences, FiniteSets, TLC

VARIABLES
    args,           \* the parsed command line (argparse namespace)
    pc,             \* position of main, or the way it ended
    A_matrix,       \* main's A_matrix (<<>> before reshape_constraints)
    verdict,        \* result of verify_feasibility: "none", "feasible", "infeasible"
    dual,           \* what transpose_to_dual returned
    linprog_call,   \* the arguments solve_dual passed to linprog
    dual_solution,  \* what solve_dual returned
    report,         \* what check_optimality returned
    trace           \* the stages main has executed, in order

vars == <<args, pc, A_matrix, verdict, dual, linprog_call, dual_solution, report, trace>>

(***************************************************************************)
(* Bounds and input sets                                                   *)
(***************************************************************************)
\* Largest num_constraints * num_vars of a well-shaped input.
MaxCells == 2

Coef == {0, 1}              \* entries of --c and --A
\* Entries of --b and of --possible_sol, in Units.  The small ones meet the
\* absolute part of np.isclose's tolerance (2 against 1), the large ones the
\* relative part (99998 against 100000).
RhsVals == {1, 100000}
PointVals == {0, 2, 99998}
DualVals == {0, 1}          \* entries of linprog's res.x
Signs == {"<=", "=", ">=", "!="}    \* --constraint_signs is any string
ValidSigns == {"<=", "=", ">="}
Types == {"max", "min"}

Shapes == {s \in (1..MaxCells) \X (1..MaxCells) : s[1] * s[2] <= MaxCells}

(***************************************************************************)
(* Helpers: numpy                                                          *)
(***************************************************************************)
Abs(v) == IF v < 0 THEN -v ELSE v

RECURSIVE DotFrom(_, _, _)
DotFrom(u, v, k) == IF k > Len(u) THEN 0 ELSE u[k] * v[k] + DotFrom(u, v, k + 1)

\* np.dot of two 1-D arrays of the same length.
Dot(u, v) == DotFrom(u, v, 1)

\* np.isclose(a, b): |a - b| <= atol + rtol * |b| with atol = 1e-8 = 1 Unit and
\* rtol = 1e-5, a and b in Units.  |a - b| is a whole number of Units, so it is
\* at most 1 + |b| / 10^5 exactly when it is at most 1 + the whole part of
\* |b| / 10^5.
IsClose(a, b) == Abs(a - b) <= 1 + (Abs(b) \div 100000)

\* A.T
Transpose(A) ==
    IF Len(A) = 0 THEN <<>>
    ELSE [j \in 1..Len(A[1]) |-> [i \in 1..Len(A) |-> A[i][j]]]

\* -v and -A
NegVec(v) == [k \in 1..Len(v) |-> -v[k]]
NegMat(A) == [i \in 1..Len(A) |-> NegVec(A[i])]

(***************************************************************************)
(* validate_inputs                                                         *)
(***************************************************************************)
validate_inputs_NoSolCheck(a) ==
    IF Len(a.c) # a.num_vars THEN "ValueError"
    ELSE IF Len(a.A) # a.num_constraints * a.num_vars THEN "ValueError"
    ELSE IF Len(a.b) # a.num_constraints THEN "ValueError"
    ELSE IF Len(a.constraint_signs) # a.num_constraints THEN "ValueError"
    ELSE "ok"

validate_inputs(a) ==
    IF Len(a.c) # a.num_vars THEN "ValueError"
    ELSE IF Len(a.A) # a.num_constraints * a.num_vars THEN "ValueError"
    ELSE IF Len(a.b) # a.num_constraints THEN "ValueError"
    ELSE IF Len(a.constraint_signs) # a.num_constraints THEN "ValueError"
    ELSE IF Len(a.possible_sol) # a.num_vars THEN "ValueError"
    ELSE "ok"

(***************************************************************************)
(* reshape_constraints: row-major                                          *)
(***************************************************************************)
reshape_constraints(A, num_constraints, num_vars) ==
    [i \in 1..num_constraints |-> [j \in 1..num_vars |-> A[(i - 1) * num_vars + j]]]

(***************************************************************************)
(* transpose_to_dual                                                       *)
(***************************************************************************)
\* One pass of the loop body: the sign appended, or "raise".
DualSign_GeKept(sign) ==
    IF sign = "<=" THEN ">="
    ELSE IF sign = ">=" THEN ">="
    ELSE IF sign = "=" THEN "="
    ELSE "raise"

DualSign(sign) ==
    IF sign = "<=" THEN ">="
    ELSE IF sign = ">=" THEN "<="
    ELSE IF sign = "=" THEN "="
    ELSE "raise"

NoDual == [status |-> "none", dual_c |-> <<>>, dual_A |-> <<>>, dual_b |-> <<>>,
           dual_signs |-> <<>>]

transpose_to_dual_NoTranspose(c, A, b, constraint_signs, problem_type) ==
    IF \E k \in 1..Len(constraint_signs) : DualSign(constraint_signs[k]) = "raise"
    THEN [NoDual EXCEPT !.status = "ValueError"]
    ELSE [status |-> "ok",
          dual_c |-> b,
          dual_A |-> A,
          dual_b |-> c,
          dual_signs |-> [k \in 1..Len(constraint_signs) |-> DualSign(constraint_signs[k])]]

transpose_to_dual(c, A, b, constraint_signs, problem_type) ==
    IF \E k \in 1..Len(constraint_signs) : DualSign(constraint_signs[k]) = "raise"
    THEN [NoDual EXCEPT !.status = "ValueError"]
    ELSE [status |-> "ok",
          dual_c |-> b,
          dual_A |-> Transpose(A),
          dual_b |-> c,
          dual_signs |-> [k \in 1..Len(constraint_signs) |-> DualSign(constraint_signs[k])]]

(***************************************************************************)
(* verify_feasibility                                                      *)
(***************************************************************************)
\* The three tests of one pass of the loop; a sign none of them names passes.
RowRejected(sign, lhs, rhs) ==
    \/ sign = "<=" /\ lhs > rhs
    \/ sign = ">=" /\ lhs < rhs
    \/ sign = "=" /\ ~IsClose(lhs, rhs)

RECURSIVE VerifyFrom(_, _, _, _, _)
VerifyFrom(A, b, constraint_signs, possible_sol, i) ==
    IF i > Len(constraint_signs) THEN TRUE
    ELSE IF RowRejected(constraint_signs[i], Dot(A[i], possible_sol), b[i]) THEN FALSE
    ELSE VerifyFrom(A, b, constraint_signs, possible_sol, i + 1)

verify_feasibility_FirstRowOnly(A, b, constraint_signs, possible_sol) ==
    ~RowRejected(constraint_signs[1], Dot(A[1], possible_sol), b[1])

verify_feasibility(A, b, constraint_signs, possible_sol) ==
    VerifyFrom(A, b, constraint_signs, possible_sol, 1)

(***************************************************************************)
(* solve_dual                                                              *)
(***************************************************************************)
NoCall == [called |-> FALSE, c |-> <<>>, A_ub |-> <<>>, b_ub |-> <<>>]

\* The arguments of linprog(c, A_ub=-A_T, b_ub=-b, method='highs').
LinprogArgs(A_T, b, c) ==
    [called |-> TRUE, c |-> c, A_ub |-> NegMat(A_T), b_ub |-> NegVec(b)]

\* linprog is an opaque collaborator: it fails, or succeeds with one value per
\* entry of the cost vector.
LinprogResults(call) ==
    {[success |-> FALSE, x |-> <<>>]}
        \cup {[success |-> TRUE, x |-> y] : y \in [1..Len(call.c) -> DualVals]}

NoSolution == [status |-> "unset", x |-> <<>>]

\* solve_dual's return value for a linprog result.
SolveReturn(res) ==
    IF res.success THEN [status |-> "x", x |-> res.x] ELSE [status |-> "None", x |-> <<>>]

(***************************************************************************)
(* check_optimality                                                        *)
(***************************************************************************)
NoReport == [status |-> "none", is_optimal |-> FALSE, primal_obj_value |-> 0,
             dual_obj_value |-> 0]

check_optimality_Exact(primal_sol, dual_sol, c, b) ==
    [status |-> "done",
     is_optimal |-> Dot(c, primal_sol) = Dot(b, dual_sol),
     primal_obj_value |-> Dot(c, primal_sol),
     dual_obj_value |-> Dot(b, dual_sol)]

check_optimality(primal_sol, dual_sol, c, b) ==
    [status |-> "done",
     is_optimal |-> IsClose(Dot(c, primal_sol), Dot(b, dual_sol)),
     primal_obj_value |-> Dot(c, primal_sol),
     dual_obj_value |-> Dot(b, dual_sol)]

(***************************************************************************)
(* print_problem                                                           *)
(***************************************************************************)
\* The loop reads A[i] and constraint_signs[i] for every i in range(len(b)):
\* "IndexError" when one of them is too short, "ok" otherwise.
print_problem(c, A, b, constraint_signs) ==
    IF \E i \in 1..Len(b) : i > Len(A) \/ i > Len(constraint_signs)
    THEN "IndexError" ELSE "ok"

(***************************************************************************)
(* parse_arguments: the command lines the model runs main on               *)
(***************************************************************************)
\* Command lines whose lists agree with the declared dimensions.
WellShapedAt(m, n) ==
    [num_vars : {n}, num_constraints : {m},
     c : [1..n -> Coef], A : [1..(m * n) -> Coef], b : [1..m -> RhsVals],
     constraint_signs : [1..m -> Signs], possible_sol : [1..n -> PointVals],
     type : Types]

DupLast(s) == Append(s, s[Len(s)])
DropLast(s) == SubSeq(s, 1, Len(s) - 1)

\* The ways a command line can disagree with its declared dimensions here: one
\* list has one entry more, or one entry less, or one declared dimension is one
\* more than the lists say.
Defects == {"none", "c+", "A+", "b+", "signs+", "sol+", "c-", "A-", "b-", "signs-",
            "sol-", "num_vars+", "num_constraints+"}

\* nargs='+' keeps at least one entry in every list.
Applicable(a, d) ==
    /\ d = "c-" => Len(a.c) > 1
    /\ d = "A-" => Len(a.A) > 1
    /\ d = "b-" => Len(a.b) > 1
    /\ d = "signs-" => Len(a.constraint_signs) > 1
    /\ d = "sol-" => Len(a.possible_sol) > 1

WithDefect(a, d) ==
    CASE d = "none" -> a
      [] d = "c+" -> [a EXCEPT !.c = DupLast(@)]
      [] d = "A+" -> [a EXCEPT !.A = DupLast(@)]
      [] d = "b+" -> [a EXCEPT !.b = DupLast(@)]
      [] d = "signs+" -> [a EXCEPT !.constraint_signs = DupLast(@)]
      [] d = "sol+" -> [a EXCEPT !.possible_sol = DupLast(@)]
      [] d = "c-" -> [a EXCEPT !.c = DropLast(@)]
      [] d = "A-" -> [a EXCEPT !.A = DropLast(@)]
      [] d = "b-" -> [a EXCEPT !.b = DropLast(@)]
      [] d = "signs-" -> [a EXCEPT !.constraint_signs = DropLast(@)]
      [] d = "sol-" -> [a EXCEPT !.possible_sol = DropLast(@)]
      [] d = "num_vars+" -> [a EXCEPT !.num_vars = @ + 1]
      [] d = "num_constraints+" -> [a EXCEPT !.num_constraints = @ + 1]

(***************************************************************************)
(* main                                                                    *)
(***************************************************************************)
Init ==
    /\ \E s \in Shapes : \E a \in WellShapedAt(s[1], s[2]) : \E d \in Defects :
          /\ Applicable(a, d)
          /\ args = WithDefect(a, d)
    /\ pc = "validate"
    /\ A_matrix = <<>>
    /\ verdict = "none"
    /\ dual = NoDual
    /\ linprog_call = NoCall
    /\ dual_solution = NoSolution
    /\ report = NoReport
    /\ trace = <<>>

\* line 112: validate_inputs(args)
Validate ==
    /\ pc = "validate"
    /\ pc' = IF validate_inputs(args) = "ok" THEN "reshape" ELSE "ShapeError"
    /\ trace' = Append(trace, "validate_inputs")
    /\ UNCHANGED <<args, A_matrix, verdict, dual, linprog_call, dual_solution, report>>

\* lines 114-117
Reshape ==
    /\ pc = "reshape"
    /\ A_matrix' = reshape_constraints(args.A, args.num_constraints, args.num_vars)
    /\ pc' = "print_primal"
    /\ trace' = Append(trace, "reshape_constraints")
    /\ UNCHANGED <<args, verdict, dual, linprog_call, dual_solution, report>>

\* line 119
PrintPrimal ==
    /\ pc = "print_primal"
    /\ pc' = IF print_problem(args.c, A_matrix, args.b, args.constraint_signs) = "ok"
             THEN "verify" ELSE "IndexError"
    /\ trace' = Append(trace, "print_primal")
    /\ UNCHANGED <<args, A_matrix, verdict, dual, linprog_call, dual_solution, report>>

\* The branch of line 121 / line 136.
AfterVerify_Always(feasible) == "to_dual"

AfterVerify(feasible) == IF feasible THEN "to_dual" ELSE "Infeasible"

\* lines 121-122, 136-137
Verify ==
    /\ pc = "verify"
    /\ LET feasible == verify_feasibility(A_matrix, args.b, args.constraint_signs,
                                          args.possible_sol)
       IN /\ verdict' = IF feasible THEN "feasible" ELSE "infeasible"
          /\ pc' = AfterVerify(feasible)
    /\ trace' = Append(trace, "verify_feasibility")
    /\ UNCHANGED <<args, A_matrix, dual, linprog_call, dual_solution, report>>

\* line 124
ToDual ==
    /\ pc = "to_dual"
    /\ dual' = transpose_to_dual(args.c, A_matrix, args.b, args.constraint_signs, args.type)
    /\ pc' = IF dual'.status = "ok" THEN "print_dual" ELSE "ValueError"
    /\ trace' = Append(trace, "transpose_to_dual")
    /\ UNCHANGED <<args, A_matrix, verdict, linprog_call, dual_solution, report>>

\* line 125
PrintDual ==
    /\ pc = "print_dual"
    /\ pc' = IF print_problem(dual.dual_c, dual.dual_A, dual.dual_b, dual.dual_signs) = "ok"
             THEN "solve" ELSE "IndexError"
    /\ trace' = Append(trace, "print_dual")
    /\ UNCHANGED <<args, A_matrix, verdict, dual, linprog_call, dual_solution, report>>

\* The branch of line 128.
AfterSolve(solution) == IF solution.status = "x" THEN "check" ELSE "SolveFailed"

\* lines 127-129, with solve_dual (lines 83-88)
Solve ==
    /\ pc = "solve"
    /\ linprog_call' = LinprogArgs(dual.dual_A, dual.dual_b, dual.dual_c)
    /\ \E res \in LinprogResults(linprog_call') :
          /\ dual_solution' = SolveReturn(res)
          /\ pc' = AfterSolve(dual_solution')
    /\ trace' = Append(trace, "solve_dual")
    /\ UNCHANGED <<args, A_matrix, verdict, dual, report>>

\* lines 131-135
Check ==
    /\ pc = "check"
    /\ report' = check_optimality(args.possible_sol, dual_solution.x, args.c, args.b)
    /\ pc' = "OptimalityChecked"
    /\ trace' = Append(trace, "check_optimality")
    /\ UNCHANGED <<args, A_matrix, verdict, dual, linprog_call, dual_solution>>

Next ==
    \/ Validate
    \/ Reshape
    \/ PrintPrimal
    \/ Verify
    \/ ToDual
    \/ PrintDual
    \/ Solve
    \/ Check

Spec == Init /\ [][Next]_vars

(***************************************************************************)
(* transpose_to_dual on its own: applied to a primal, then to its result   *)
(***************************************************************************)
InitDual ==
    /\ \E s \in Shapes : args \in WellShapedAt(s[1], s[2])
    /\ pc = "primal"
    /\ A_matrix = reshape_constraints(args.A, args.num_constraints, args.num_vars)
    /\ verdict = "none"
    /\ dual = NoDual
    /\ linprog_call = NoCall
    /\ dual_solution = NoSolution
    /\ report = NoReport
    /\ trace = <<>>

DualOfPrimal ==
    /\ pc = "primal"
    /\ dual' = transpose_to_dual(args.c, A_matrix, args.b, args.constraint_signs, args.type)
    /\ pc' = IF dual'.status = "ok" THEN "dual" ELSE "ValueError"
    /\ trace' = Append(trace, "transpose_to_dual")
    /\ UNCHANGED <<args, A_matrix, verdict, linprog_call, dual_solution, report>>

DualOfDual ==
    /\ pc = "dual"
    /\ dual' = transpose_to_dual(dual.dual_c, dual.dual_A, dual.dual_b, dual.dual_signs,
                                 args.type)
    /\ pc' = IF dual'.status = "ok" THEN "dual_of_dual" ELSE "ValueError"
    /\ trace' = Append(trace, "transpose_to_dual")
    /\ UNCHANGED <<args, A_matrix, verdict, linprog_call, dual_solution, report>>

NextDual ==
    \/ DualOfPrimal
    \/ DualOfDual

SpecDual == InitDual /\ [][NextDual]_vars

(***************************************************************************)
(* Vocabulary of the claims                                                *)
(***************************************************************************)
NumVars == args.num_vars
NumCons == args.num_constraints

ShapesAgree ==
    /\ Len(args.c) = NumVars
    /\ Len(args.A) = NumCons * NumVars
    /\ Len(args.b) = NumCons
    /\ Len(args.constraint_signs) = NumCons
    /\ Len(args.possible_sol) = NumVars

SignsValid == \A k \in 1..Len(args.constraint_signs) : args.constraint_signs[k] \in ValidSigns

InTrace(stage) == \E k \in 1..Len(trace) : trace[k] = stage

\* Position of the first occurrence of a stage in the trace (0: absent).
At(stage) == IF InTrace(stage) THEN CHOOSE k \in 1..Len(trace) :
                                        trace[k] = stage /\ \A h \in 1..(k - 1) : trace[h] # stage
             ELSE 0

Ended == pc \in {"ShapeError", "IndexError", "ValueError", "Infeasible", "SolveFailed",
                 "OptimalityChecked"}

\* Row i of the primal against its relation, as the specification states it.
RowSatisfied(A, b, signs, x, i) ==
    LET lhs == Dot(A[i], x)
    IN CASE signs[i] = "<=" -> lhs <= b[i]
         [] signs[i] = ">=" -> lhs >= b[i]
         [] signs[i] = "=" -> IsClose(lhs, b[i])
         [] OTHER -> FALSE

Perms(n) == {p \in [1..n -> 1..n] : \A h, k \in 1..n : p[h] = p[k] => h = k}

Reorder(s, p) == [k \in 1..Len(s) |-> s[p[k]]]

flip(r) == CASE r = "<=" -> ">=" [] r = ">=" -> "<=" [] r = "=" -> "="

(***************************************************************************)
(* C1: verify_feasibility returns true exactly when every row satisfies    *)
(* its relation (<=, >=, or = up to closeness), and its result is the same *)
(* for every simultaneous reordering of the rows of A, b and signs.        *)
(***************************************************************************)
Thm_C1_FeasibilityIsConjunction ==
    (verdict # "none" /\ SignsValid) =>
        /\ (verdict = "feasible") <=>
              \A i \in 1..NumCons :
                  RowSatisfied(A_matrix, args.b, args.constraint_signs, args.possible_sol, i)
        /\ \A p \in Perms(NumCons) :
              verify_feasibility(Reorder(A_matrix, p), Reorder(args.b, p),
                                 Reorder(args.constraint_signs, p), args.possible_sol)
                  = (verdict = "feasible")

\* Two rows, the first satisfied and the second violated (by an "=" row that is
\* not close): the verdict is false, and the reordering meets the violation first.
Wit_C1_SecondRowViolated ==
    /\ verdict = "infeasible"
    /\ SignsValid
    /\ NumCons = 2
    /\ RowSatisfied(A_matrix, args.b, args.constraint_signs, args.possible_sol, 1)
    /\ args.constraint_signs[2] = "="
    /\ ~RowSatisfied(A_matrix, args.b, args.constraint_signs, args.possible_sol, 2)

(***************************************************************************)
(* C2: with a relation symbol outside {<=, =, >=}, the error is raised     *)
(* during verify_feasibility: no feasibility verdict is produced and       *)
(* transpose_to_dual never runs.                                           *)
(***************************************************************************)
CE_C2_InvalidSignStopsFeasibilityCheck ==
    (ShapesAgree /\ ~SignsValid) =>
        /\ verdict = "none"
        /\ ~InTrace("transpose_to_dual")
        /\ pc # "Infeasible"

CE_C4_DualWellFormed ==
    dual.status = "ok" =>
        /\ Len(dual.dual_c) = NumCons
        /\ Len(dual.dual_A) = NumVars
        /\ \A j \in 1..Len(dual.dual_A) : Len(dual.dual_A[j]) = NumCons
        /\ Len(dual.dual_b) = NumVars
        /\ Len(dual.dual_signs) = NumVars

(***************************************************************************)
(* C5: when the candidate fails a primal constraint, the dual transform,   *)
(* the dual rendering, the solver call and the optimality check never      *)
(* happen; when the solver fails, the optimality check never happens; the  *)
(* optimality check happens only after a feasible verdict, a built dual    *)
(* and a successful solve, in that order.                                  *)
(***************************************************************************)
CandidateFails ==
    /\ ShapesAgree
    /\ A_matrix # <<>>
    /\ \E i \in 1..NumCons :
          /\ args.constraint_signs[i] \in ValidSigns
          /\ ~RowSatisfied(A_matrix, args.b, args.constraint_signs, args.possible_sol, i)

Thm_C5_ShortCircuit ==
    /\ CandidateFails =>
          /\ ~InTrace("transpose_to_dual") /\ ~InTrace("print_dual")
          /\ ~InTrace("solve_dual") /\ ~InTrace("check_optimality")
          /\ dual = NoDual /\ linprog_call = NoCall /\ report = NoReport
          /\ pc \in {"print_primal", "verify", "Infeasible"}
    /\ dual_solution.status = "None" =>
          /\ ~InTrace("check_optimality")
          /\ report = NoReport
          /\ pc = "SolveFailed"
    /\ InTrace("check_optimality") =>
          /\ verdict = "feasible" /\ dual.status = "ok" /\ dual_solution.status = "x"
          /\ 0 < At("verify_feasibility")
          /\ At("verify_feasibility") < At("transpose_to_dual")
          /\ At("transpose_to_dual") < At("solve_dual")
          /\ At("solve_dual") < At("check_optimality")

\* A run that ended on the infeasible branch.
Wit_C5_InfeasibleEnds ==
    /\ CandidateFails
    /\ pc = "Infeasible"
    /\ trace = <<"validate_inputs", "reshape_constraints", "print_primal",
                 "verify_feasibility">>

(***************************************************************************)
(* C6: when any input length disagrees with the declared dimensions,       *)
(* validate_inputs fails before the matrix is reshaped and before any      *)
(* feasibility, dual or solver step: the pipeline never starts.            *)
(***************************************************************************)
Thm_C6_ShapeErrorFirst ==
    ~ShapesAgree =>
        /\ pc \in {"validate", "ShapeError"}
        /\ A_matrix = <<>> /\ verdict = "none" /\ dual = NoDual
        /\ linprog_call = NoCall /\ dual_solution = NoSolution /\ report = NoReport
        /\ \A k \in 1..Len(trace) : trace[k] = "validate_inputs"

\* Only the last test of validate_inputs can reject this command line.
Wit_C6_CandidateLengthOnly ==
    /\ pc = "ShapeError"
    /\ Len(args.c) = NumVars
    /\ Len(args.A) = NumCons * NumVars
    /\ Len(args.b) = NumCons
    /\ Len(args.constraint_signs) = NumCons
    /\ Len(args.possible_sol) # NumVars

(***************************************************************************)
(* C7: check_optimality reports primalObjectiveValue = objective . primal  *)
(* point and dualObjectiveValue = rhs . dual point, and isOptimal is true  *)
(* exactly when their difference is within the tolerance                   *)
(* (atol + rtol * |dualObjectiveValue|).                                   *)
(***************************************************************************)
\* atol + rtol * |d| in whole Units (atol = 1 Unit, rtol = 1e-5).
Tolerance(d) == 1 + (Abs(d) \div 100000)

Thm_C7_OptimalityWithinTolerance ==
    report.status = "done" =>
        /\ report.primal_obj_value = Dot(args.c, args.possible_sol)
        /\ report.dual_obj_value = Dot(args.b, dual_solution.x)
        /\ report.is_optimal <=>
              Abs(report.primal_obj_value - report.dual_obj_value)
                  <= Tolerance(report.dual_obj_value)

\* The two values differ by 2 Units, which only the relative part of the
\* tolerance allows.
Wit_C7_CloseNotEqual ==
    /\ report.status = "done"
    /\ report.is_optimal
    /\ Abs(report.primal_obj_value - report.dual_obj_value) = 2

(***************************************************************************)
(* C8: transpose_to_dual applied to its own result gives back the          *)
(* original constraint matrix and the original relations.                  *)
(***************************************************************************)
Thm_C8_DualOfDualRoundTrip ==
    pc = "dual_of_dual" =>
        /\ dual.status = "ok"
        /\ dual.dual_A = A_matrix
        /\ dual.dual_signs = args.constraint_signs

\* A round trip of a non-square primal with both inequality kinds.
Wit_C8_RoundTripNonSquare ==
    /\ pc = "dual_of_dual"
    /\ NumCons = 2 /\ NumVars = 1
    /\ args.constraint_signs = <<"<=", ">=">>
    /\ A_matrix = <<(<<0>>), (<<1>>)>>

(***************************************************************************)
(* C9: every run whose inputs pass shape validation and whose relation     *)
(* symbols are valid ends in Infeasible, SolveFailed or OptimalityChecked, *)
(* for every M and N: after a feasible verdict the dual is built and       *)
(* rendered and the solver is called, without any other abort.             *)
(***************************************************************************)
CE_C9_EndsInOneOfThree ==
    (ShapesAgree /\ SignsValid) =>
        /\ Ended => pc \in {"Infeasible", "SolveFailed", "OptimalityChecked"}
        /\ (Ended /\ verdict = "feasible") =>
              /\ InTrace("transpose_to_dual") /\ InTrace("print_dual")
              /\ InTrace("solve_dual")

(***************************************************************************)
(* C10: for every feasible run the solver is called with cost vector b,    *)
(* inequality matrix -transpose(A) and bound vector -c; a returned         *)
(* solution has length M and a solver failure is returned as None.         *)
(***************************************************************************)
CE_C10_SolverCalledOnDual ==
    (Ended /\ ShapesAgree /\ SignsValid /\ verdict = "feasible") =>
        /\ linprog_call.called
        /\ linprog_call.c = args.b
        /\ linprog_call.A_ub = NegMat(Transpose(A_matrix))
        /\ linprog_call.b_ub = NegVec(args.c)
        /\ dual_solution.status \in {"x", "None"}
        /\ dual_solution.status = "x" => Len(dual_solution.x) = NumCons

\* The part of C10 about the call itself: whenever solve_dual has called the
\* solver, the arguments and the returned value are the ones C10 names.
Aux_C10_WhenCalled ==
    linprog_call.called =>
        /\ verdict = "feasible"
        /\ linprog_call.c = args.b
        /\ Len(linprog_call.A_ub) = NumVars
        /\ \A j \in 1..NumVars : \A i \in 1..NumCons :
              linprog_call.A_ub[j][i] = -A_matrix[i][j]
        /\ \A j \in 1..NumVars : linprog_call.b_ub[j] = -args.c[j]
        /\ dual_solution.status \in {"x", "None"}
        /\ dual_solution.status = "x" => Len(dual_solution.x) = NumCons

====
